---- MODULE Spec2Model ----
(***************************************************************************)
(* Stream lifecycle of the live-streaming dashboard:                       *)
(*   - components/streaming_interface.py  start_stream / stop_stream (UI)  *)
(*   - services/streaming_service.py      StreamingService                 *)
(*   - services/youtube_service.py        the remote handshake calls       *)
(* Threads: one Streamlit script thread per start request, one per stop    *)
(* request, one daemon monitor thread per launched subprocess, and the OS  *)
(* subprocess itself.  Nothing in StreamingService takes a lock, so every  *)
(* statement that touches the shared dictionaries is a step of its own.    *)
(***************************************************************************)
EXTENDS Integers, Sequences, FiniteSets, TLC

\* ------------------------------------------------------------------ bounds
MaxRequests == 2
MaxStoppers == 2
MaxChannels == 2
\* length of an ingest key; longer than the part of it the page displays
KeyLen == 12
\* length of an ingest url
UrlLen == 3
\* lines the stderr pipe of a subprocess holds before a write to it blocks
PipeCap == 2

Channels == 1..MaxChannels
NoChannel == 0
\* auth_service.py line 13: self.current_channel = None
NoCurrent == [name |-> NoChannel, info |-> NoChannel]
Requests == 1..MaxRequests
Stoppers == 1..MaxStoppers
\* session ids: uuid4 gives every UI request an id of its own
SessionIds == Requests

NoSid == 0
NoProc == 0
NoRec == [status |-> "absent", end_time |-> 0]
NoId == 0
NoKey == <<>>
NoInfo == [stream_id |-> NoId, stream_url |-> NoKey, stream_key |-> NoKey]
NoCmd == [loop |-> FALSE, dest |-> NoKey]
NoArgs == [broadcast_id |-> NoId, stream_id |-> NoId]

VARIABLES
    pc,               \* per start request: position in start_stream (UI + service)
    sid,              \* per start request: its session_id
    calls,            \* per start request: remote handshake calls issued, with outcome
    ui_result,        \* per start request: the st.* message the UI ends with
    svc_result,       \* per start request: outcome of StreamingService.start_stream
    proc,             \* per start request: the subprocess its Popen created
    mon,              \* per start request: position of the monitor thread of that subprocess
    active_streams,   \* StreamingService.active_streams : session_id -> record
    stream_processes, \* StreamingService.stream_processes : session_id -> process
    elapsed,          \* per session: datetime.now() - start_time > 10 seconds
    events,           \* per session: callback(session_id, status, ...) invocations, in order
    db,               \* streaming_sessions rows written by save_streaming_session
    spc,              \* per stop request: position in stop_stream
    ssid,             \* per stop request: its session_id argument
    sproc,            \* per stop request: the local variable `process`
    sret,             \* per stop request: outcome of stop_stream
    stream_info,      \* per start request: what create_live_stream returned
    broadcast_info,   \* per start request: the id create_live_broadcast returned
    bind_args,        \* per start request: the arguments of its bind call
    shown,            \* per start request: the stream key the page displays
    db_key,           \* streaming_sessions rows: the stream_key column
    rec_key,          \* active_streams records: 'stream_key', also the tail of 'rtmp_url'
    encoder,          \* per subprocess: what the ingest endpoint reports about it
    late,             \* per subprocess: it was still running 90 seconds after its start
    pipe,             \* per subprocess: unread lines in its stderr pipe
    cmd,              \* per subprocess: the command line it was created with
    eof,              \* per subprocess: it has read its input file to the end
    scalls,           \* per stop request: remote calls the stop handler issued
    views,            \* per session: what the last status query returned for it
    cpc,              \* cleanup: the position of the thread that runs it
    ckeys,            \* cleanup: the keys of stop_all_streams' list still to be stopped
    current_channel,  \* auth_service.current_channel: its 'name' and whose 'info' it holds
    credentials,      \* youtube_service.service: the channel whose credentials built it
    saved             \* the channels with a row in saved_channels

vars == <<pc, sid, calls, ui_result, svc_result, proc, mon, active_streams,
          stream_processes, elapsed, events, db, spc, ssid, sproc, sret,
          stream_info, broadcast_info, bind_args, shown, db_key, rec_key,
          encoder, late, pipe, cmd, eof, scalls, views, cpc, ckeys,
          current_channel, credentials, saved>>

startVars == <<pc, sid, calls, ui_result, svc_result>>
stopVars == <<spc, ssid, sproc, sret>>
regVars == <<active_streams, stream_processes>>
infoVars == <<stream_info, broadcast_info, bind_args, shown>>
keyVars == <<db_key, rec_key>>
envVars == <<encoder, late, pipe, cmd, eof>>
cleanVars == <<cpc, ckeys>>
authVars == <<current_channel, credentials, saved>>
dataVars == <<infoVars, keyVars, envVars, scalls, views, cleanVars, authVars>>

Exited == {"exited", "killed"}
Alive == {"running", "sigterm"}

Init ==
    /\ pc = [r \in Requests |-> "idle"]
    /\ sid = [r \in Requests |-> NoSid]
    /\ calls = [r \in Requests |-> <<>>]
    /\ ui_result = [r \in Requests |-> "none"]
    /\ svc_result = [r \in Requests |-> "none"]
    /\ proc = [r \in Requests |-> "none"]
    /\ mon = [r \in Requests |-> "none"]
    /\ active_streams = [s \in SessionIds |-> NoRec]
    /\ stream_processes = [s \in SessionIds |-> NoProc]
    /\ elapsed = [s \in SessionIds |-> FALSE]
    /\ events = [s \in SessionIds |-> <<>>]
    /\ db = [s \in SessionIds |-> "none"]
    /\ spc = [k \in Stoppers |-> "idle"]
    /\ ssid = [k \in Stoppers |-> NoSid]
    /\ sproc = [k \in Stoppers |-> NoProc]
    /\ sret = [k \in Stoppers |-> "none"]
    /\ stream_info = [r \in Requests |-> NoInfo]
    /\ broadcast_info = [r \in Requests |-> NoId]
    /\ bind_args = [r \in Requests |-> NoArgs]
    /\ shown = [r \in Requests |-> NoKey]
    /\ db_key = [s \in SessionIds |-> NoKey]
    /\ rec_key = [s \in SessionIds |-> NoKey]
    /\ encoder = [r \in Requests |-> "inactive"]
    /\ late = [r \in Requests |-> FALSE]
    /\ pipe = [r \in Requests |-> 0]
    /\ cmd = [r \in Requests |-> NoCmd]
    /\ eof = [r \in Requests |-> FALSE]
    /\ scalls = [k \in Stoppers |-> <<>>]
    /\ views = [s \in SessionIds |-> NoRec]
    /\ cpc = "idle"
    /\ ckeys = {}
    /\ current_channel = NoCurrent
    /\ credentials = NoChannel
    /\ saved = {}

\* --------------------------------------------------- UI: start_stream
\* uuid.uuid4(): an id no other request has
NewSessionId(r) == r

Call(op, ok) == [op |-> op, ok |-> ok]

\* youtube_service.py lines 181-185: the ids and the key the remote service makes up
StreamId(r) == 10 + r
BroadcastId(r) == 20 + r
StreamKey(r) == [i \in 1..KeyLen |-> 100 * r + i]
StreamUrl(r) == [i \in 1..UrlLen |-> 1000 * r + i]
StreamInfo(r) ==
    [stream_id |-> StreamId(r), stream_url |-> StreamUrl(r), stream_key |-> StreamKey(r)]

\* lines 147-177: input validation, upload, session id
UiBegin(r) ==
    /\ pc[r] = "idle"
    /\ \E valid \in BOOLEAN :
         IF valid
         THEN /\ sid' = [sid EXCEPT ![r] = NewSessionId(r)]
              /\ pc' = [pc EXCEPT ![r] = "create_stream"]
              /\ UNCHANGED ui_result
         ELSE /\ pc' = [pc EXCEPT ![r] = "done"]
              /\ ui_result' = [ui_result EXCEPT ![r] = "invalid_input"]
              /\ UNCHANGED sid
    /\ UNCHANGED <<calls, svc_result, proc, mon, regVars, elapsed, events, db, stopVars, dataVars>>

AfterCreateStreamRetry(ok) == IF ok THEN "create_broadcast" ELSE "create_stream"
\* lines 189-191: `if not stream_info: return`
AfterCreateStream(ok) == IF ok THEN "create_broadcast" ELSE "done"

\* lines 183-191
UiCreateStream(r) ==
    /\ pc[r] = "create_stream"
    /\ \E ok \in BOOLEAN :
         /\ calls' = [calls EXCEPT ![r] = Append(@, Call("create_stream", ok))]
         /\ pc' = [pc EXCEPT ![r] = AfterCreateStream(ok)]
         /\ ui_result' = [ui_result EXCEPT ![r] = IF ok THEN @ ELSE "stream_failed"]
         /\ stream_info' = [stream_info EXCEPT ![r] = IF ok THEN StreamInfo(r) ELSE @]
    /\ UNCHANGED <<sid, svc_result, proc, mon, regVars, elapsed, events, db, stopVars,
                   broadcast_info, bind_args, shown, keyVars, envVars, scalls,
                   views, cleanVars, authVars>>

AfterCreateBroadcastNoReturn(ok) == "bind"
\* lines 202-204: `if not broadcast_info: return`
AfterCreateBroadcast(ok) == IF ok THEN "bind" ELSE "done"

\* lines 193-204
UiCreateBroadcast(r) ==
    /\ pc[r] = "create_broadcast"
    /\ \E ok \in BOOLEAN :
         /\ calls' = [calls EXCEPT ![r] = Append(@, Call("create_broadcast", ok))]
         /\ pc' = [pc EXCEPT ![r] = AfterCreateBroadcast(ok)]
         /\ ui_result' = [ui_result EXCEPT ![r] = IF ok THEN @ ELSE "broadcast_failed"]
         /\ broadcast_info' = [broadcast_info EXCEPT ![r] = IF ok THEN BroadcastId(r) ELSE @]
    /\ UNCHANGED <<sid, svc_result, proc, mon, regVars, elapsed, events, db, stopVars,
                   stream_info, bind_args, shown, keyVars, envVars, scalls,
                   views, cleanVars, authVars>>

BindArgsSwapped(broadcast, stream) == [broadcast_id |-> stream, stream_id |-> broadcast]
\* lines 207-210: bind_stream_to_broadcast(broadcast_info['id'], stream_info['stream_id'])
BindArgs(broadcast, stream) == [broadcast_id |-> broadcast, stream_id |-> stream]

AfterBindRetry(ok) == IF ok THEN "save" ELSE "bind"
AfterBindNoReturn(ok) == "save"
\* lines 212-214: `if not bind_success: return`
AfterBind(ok) == IF ok THEN "save" ELSE "done"

\* lines 206-214
UiBind(r) ==
    /\ pc[r] = "bind"
    /\ \E ok \in BOOLEAN :
         /\ calls' = [calls EXCEPT ![r] = Append(@, Call("bind", ok))]
         /\ pc' = [pc EXCEPT ![r] = AfterBind(ok)]
         /\ ui_result' = [ui_result EXCEPT ![r] = IF ok THEN @ ELSE "bind_failed"]
    /\ bind_args' = [bind_args EXCEPT ![r] =
                        BindArgs(broadcast_info[r], stream_info[r].stream_id)]
    /\ UNCHANGED <<sid, svc_result, proc, mon, regVars, elapsed, events, db, stopVars,
                   stream_info, broadcast_info, shown, keyVars, envVars, scalls,
                   views, cleanVars, authVars>>

\* lines 216-228: save_streaming_session inserts the row; status defaults to 'active'
UiSave(r) ==
    /\ pc[r] = "save"
    /\ db' = [db EXCEPT ![sid[r]] = "active"]
    /\ db_key' = [db_key EXCEPT ![sid[r]] = stream_info[r].stream_key]
    /\ pc' = [pc EXCEPT ![r] = "svc_check"]
    /\ UNCHANGED <<sid, calls, ui_result, svc_result, proc, mon, regVars, elapsed,
                   events, stopVars, infoVars, rec_key, envVars, scalls,
                   views, cleanVars, authVars>>

\* database.py lines 301-312: the rows with status = 'active' OR end_time IS NULL; no
\* statement of the repository sets the status or the end_time of a row
GetStreamingSessions(active_only) ==
    {s \in SessionIds : db[s] # "none" /\ (active_only => db[s] = "active")}

\* ------------------------------------- StreamingService.start_stream
AlreadyActiveUnchecked(s) == FALSE
\* line 68: `if session_id in self.active_streams`
AlreadyActive(s) == active_streams[s] # NoRec

\* lines 72-81: os.path.exists and get_video_info, as the environment answers them
Validation == {"ok", "file_missing", "no_info"}

\* lines 67-81
SvcCheck(r) ==
    /\ pc[r] = "svc_check"
    /\ IF AlreadyActive(sid[r])
       THEN /\ svc_result' = [svc_result EXCEPT ![r] = "already_active"]
            /\ pc' = [pc EXCEPT ![r] = "returned"]
       ELSE \E v \in Validation :
              IF v = "ok"
              THEN /\ pc' = [pc EXCEPT ![r] = "svc_popen"]
                   /\ UNCHANGED svc_result
              ELSE /\ svc_result' = [svc_result EXCEPT ![r] = v]
                   /\ pc' = [pc EXCEPT ![r] = "returned"]
    /\ UNCHANGED <<sid, calls, ui_result, proc, mon, regVars, elapsed, events, db, stopVars,
                   dataVars>>

AfterPopenStoreAnyway(ok) == "svc_store"
\* lines 105-110 and 138-140: Popen raising leaves through `except`
AfterPopen(ok) == IF ok THEN "svc_store" ELSE "returned"

\* line 84: the character between stream_url and stream_key
Slash == 47
RtmpUrlNoSlash(url, key) == url \o key
\* line 84: rtmp_url = f"{stream_url}/{stream_key}"
RtmpUrl(url, key) == url \o <<Slash>> \o key

\* lines 86-102: the ffmpeg command; it has '-re' and no '-stream_loop'
Command(url, key) == [loop |-> FALSE, dest |-> RtmpUrl(url, key)]

\* lines 83-110
SvcPopen(r) ==
    /\ pc[r] = "svc_popen"
    /\ \E ok \in BOOLEAN :
         /\ proc' = [proc EXCEPT ![r] = IF ok THEN "running" ELSE @]
         /\ cmd' = [cmd EXCEPT ![r] =
                       IF ok THEN Command(stream_info[r].stream_url,
                                          stream_info[r].stream_key)
                       ELSE @]
         /\ svc_result' = [svc_result EXCEPT ![r] = IF ok THEN @ ELSE "exception"]
         /\ pc' = [pc EXCEPT ![r] = AfterPopen(ok)]
    /\ UNCHANGED <<sid, calls, ui_result, mon, regVars, elapsed, events, db, stopVars,
                   infoVars, keyVars, encoder, late, pipe, eof, scalls, views, cleanVars, authVars>>

\* lines 112-121: the record is a new dict: status 'starting', start_time now, no end_time
SvcStore(r) ==
    /\ pc[r] = "svc_store"
    /\ active_streams' = [active_streams EXCEPT ![sid[r]] =
                             [status |-> "starting", end_time |-> 0]]
    /\ rec_key' = [rec_key EXCEPT ![sid[r]] = stream_info[r].stream_key]
    /\ elapsed' = [elapsed EXCEPT ![sid[r]] = FALSE]
    /\ pc' = [pc EXCEPT ![r] = "svc_register"]
    /\ UNCHANGED <<sid, calls, ui_result, svc_result, proc, mon, stream_processes,
                   events, db, stopVars, infoVars, db_key, envVars, scalls,
                   views, cleanVars, authVars>>

\* lines 123-136: process handle, monitor thread, return True
SvcRegister(r) ==
    /\ pc[r] = "svc_register"
    /\ stream_processes' = [stream_processes EXCEPT ![sid[r]] = r]
    /\ mon' = [mon EXCEPT ![r] = "poll"]
    /\ svc_result' = [svc_result EXCEPT ![r] = "ok"]
    /\ pc' = [pc EXCEPT ![r] = "returned"]
    /\ UNCHANGED <<sid, calls, ui_result, proc, active_streams, elapsed, events, db,
                   stopVars, dataVars>>

\* the bool start_stream returns
Success(r) == svc_result[r] = "ok"

\* lines 70, 75, 81, 136 and 140: the value start_stream returns on each of its ways out
Returned(reason) == reason = "ok"

\* streaming_interface.py line 250: stream_info['stream_key'][:10]
ShownLen == 10
Redact(key) == SubSeq(key, 1, ShownLen)

\* streaming_interface.py lines 245-261
UiResult(r) ==
    /\ pc[r] = "returned"
    /\ ui_result' = [ui_result EXCEPT ![r] = IF Success(r) THEN "started" ELSE "ffmpeg_failed"]
    /\ shown' = [shown EXCEPT ![r] =
                    IF Success(r) THEN Redact(stream_info[r].stream_key) ELSE @]
    /\ pc' = [pc EXCEPT ![r] = "done"]
    /\ UNCHANGED <<sid, calls, svc_result, proc, mon, regVars, elapsed, events, db,
                   stopVars, stream_info, broadcast_info, bind_args, keyVars, envVars,
                   scalls, views, cleanVars, authVars>>

\* ------------------------------------------------------ the subprocess
\* the transcoder ends by itself (end of input, error) or after SIGTERM
ProcExit(r) ==
    /\ proc[r] \in Alive
    /\ proc' = [proc EXCEPT ![r] = "exited"]
    /\ UNCHANGED <<startVars, mon, regVars, elapsed, events, db, stopVars, dataVars>>

\* wall-clock time passes the 10 seconds of line 161 for a registered session
TimePasses(s) ==
    /\ active_streams[s] # NoRec
    /\ ~elapsed[s]
    /\ elapsed' = [elapsed EXCEPT ![s] = TRUE]
    /\ UNCHANGED <<startVars, proc, mon, regVars, events, db, stopVars, dataVars>>

\* the transcoder, reading its input at the native frame rate ('-re'), comes to the
\* end of the file; without input looping in its command it then exits
EndOfInput(r) ==
    /\ proc[r] = "running"
    /\ ~cmd[r].loop
    /\ proc' = [proc EXCEPT ![r] = "exited"]
    /\ eof' = [eof EXCEPT ![r] = TRUE]
    /\ UNCHANGED <<startVars, mon, regVars, elapsed, events, db, stopVars,
                   infoVars, keyVars, encoder, late, pipe, cmd, scalls, views, cleanVars, authVars>>

\* the transcoder's media arrives at the ingest endpoint, which from then on reports
\* the stream as active (what liveStreams().list would answer): "early" within the
\* first 10 seconds, "active" within the first 90, "late" after them
EncoderActive(r) ==
    /\ proc[r] = "running"
    /\ encoder[r] = "inactive"
    /\ encoder' = [encoder EXCEPT ![r] =
                      IF late[r] THEN "late"
                      ELSE IF elapsed[sid[r]] THEN "active" ELSE "early"]
    /\ UNCHANGED <<startVars, proc, mon, regVars, elapsed, events, db, stopVars,
                   infoVars, keyVars, late, pipe, cmd, eof, scalls, views, cleanVars, authVars>>

\* wall-clock time passes 90 seconds after start_time with the subprocess running;
\* the monitor, one pass every 5 seconds, has long made the pass that follows the 10th
ReadinessTimeout(r) ==
    /\ proc[r] \in Alive
    /\ elapsed[sid[r]]
    /\ active_streams[sid[r]].status = "active"
    /\ ~late[r]
    /\ late' = [late EXCEPT ![r] = TRUE]
    /\ UNCHANGED <<startVars, proc, mon, regVars, elapsed, events, db, stopVars,
                   infoVars, keyVars, encoder, pipe, cmd, eof, scalls, views, cleanVars, authVars>>

\* the transcoder writes a line of progress or diagnostics to its stderr, a pipe
\* (Popen with stderr=PIPE); the write blocks while the pipe is full
ProcWrite(r) ==
    /\ proc[r] = "running"
    /\ pipe[r] < PipeCap
    /\ pipe' = [pipe EXCEPT ![r] = @ + 1]
    /\ UNCHANGED <<startVars, proc, mon, regVars, elapsed, events, db, stopVars,
                   infoVars, keyVars, encoder, late, cmd, eof, scalls, views, cleanVars, authVars>>

\* ------------------------------------ StreamingService._monitor_stream
PolledNever(r) == FALSE
\* line 148: process.poll() is not None
Polled(r) == proc[r] \in Exited

BecomesActiveAnyStatus(s) ==
    /\ active_streams[s] # NoRec
    /\ elapsed[s]

BecomesActiveOnActive(s) ==
    /\ active_streams[s] # NoRec
    /\ elapsed[s]
    /\ active_streams[s].status = "active"
\* lines 159-161: the test that guards the write of line 162
BecomesActive(s) ==
    /\ active_streams[s] # NoRec
    /\ elapsed[s]
    /\ active_streams[s].status = "starting"

MonitorAfterExitNoBreak == "poll"
\* line 156: break
MonitorAfterExit == "done"

\* lines 150-152
MarkStopped(rec) == [rec EXCEPT !.status = "stopped", !.end_time = @ + 1]

\* one pass of the loop up to the write of line 162: lines 146-161 and 166
MonitorTick(r) ==
    /\ mon[r] = "poll"
    /\ IF Polled(r)
       THEN /\ active_streams' =
                 IF active_streams[sid[r]] # NoRec
                 THEN [active_streams EXCEPT ![sid[r]] = MarkStopped(@)]
                 ELSE active_streams
            /\ events' = [events EXCEPT ![sid[r]] = Append(@, "stopped")]
            /\ mon' = [mon EXCEPT ![r] = MonitorAfterExit]
       ELSE /\ mon' = [mon EXCEPT ![r] =
                          IF BecomesActive(sid[r]) THEN "set_active" ELSE "poll"]
            /\ UNCHANGED <<active_streams, events>>
    /\ UNCHANGED <<startVars, proc, stream_processes, elapsed, db, stopVars, dataVars>>

\* lines 162-164, then the sleep of line 166; without the record line 162 raises
\* KeyError and the thread ends in the handler of lines 168-170
MonitorSetActive(r) ==
    /\ mon[r] = "set_active"
    /\ IF active_streams[sid[r]] # NoRec
       THEN /\ active_streams' = [active_streams EXCEPT ![sid[r]].status = "active"]
            /\ events' = [events EXCEPT ![sid[r]] = Append(@, "active")]
            /\ mon' = [mon EXCEPT ![r] = "poll"]
       ELSE /\ events' = [events EXCEPT ![sid[r]] = Append(@, "error")]
            /\ mon' = [mon EXCEPT ![r] = "error"]
            /\ UNCHANGED active_streams
    /\ UNCHANGED <<startVars, proc, stream_processes, elapsed, db, stopVars, dataVars>>

\* ---------------------------------------- StreamingService.stop_stream
\* the Stop buttons (streaming_interface.py 284-303, dashboard.py 84-109) are drawn
\* for the keys of get_all_stream_status(), that is of active_streams
UiStop(k, s) ==
    /\ spc[k] = "idle"
    /\ active_streams[s] # NoRec
    /\ spc' = [spc EXCEPT ![k] = "check"]
    /\ ssid' = [ssid EXCEPT ![k] = s]
    /\ UNCHANGED <<startVars, proc, mon, regVars, elapsed, events, db, sproc, sret, dataVars>>

NotActiveByHandle(s) == stream_processes[s] = NoProc
\* line 175: `if session_id not in self.active_streams`
NotActive(s) == active_streams[s] = NoRec

\* lines 174-177
StopCheck(k) ==
    /\ spc[k] = "check"
    /\ IF NotActive(ssid[k])
       THEN /\ sret' = [sret EXCEPT ![k] = "not_active"]
            /\ spc' = [spc EXCEPT ![k] = "done"]
       ELSE /\ spc' = [spc EXCEPT ![k] = "lookup"]
            /\ UNCHANGED sret
    /\ UNCHANGED <<startVars, proc, mon, regVars, elapsed, events, db, ssid, sproc, dataVars>>

\* process.terminate(): SIGTERM, nothing when the process has already exited
Terminate(st) == IF st = "running" THEN "sigterm" ELSE st

\* lines 180-182
StopTerminate(k) ==
    /\ spc[k] = "lookup"
    /\ IF stream_processes[ssid[k]] # NoProc
       THEN /\ sproc' = [sproc EXCEPT ![k] = stream_processes[ssid[k]]]
            /\ proc' = [proc EXCEPT ![stream_processes[ssid[k]]] = Terminate(@)]
            /\ spc' = [spc EXCEPT ![k] = "wait"]
       ELSE /\ spc' = [spc EXCEPT ![k] = "mark"]
            /\ UNCHANGED <<sproc, proc>>
    /\ UNCHANGED <<startVars, mon, regVars, elapsed, events, db, ssid, sret, dataVars>>

WaitAlwaysKills(st) == "kill"
\* lines 185-187: wait(timeout=10) returns when the process has exited, and raises
\* TimeoutExpired when the 10 seconds end with the process still there
AfterWait(st) == IF st \in Exited THEN "del" ELSE "kill"

StopWait(k) ==
    /\ spc[k] = "wait"
    /\ spc' = [spc EXCEPT ![k] = AfterWait(proc[sproc[k]])]
    /\ UNCHANGED <<startVars, proc, mon, regVars, elapsed, events, db, ssid, sproc, sret, dataVars>>

\* process.kill(): SIGKILL, nothing when the process has already exited
Kill(st) == IF st \in Alive THEN "killed" ELSE st

StopKillAll(k) ==
    /\ spc[k] = "kill"
    /\ proc' = [r \in Requests |-> Kill(proc[r])]
    /\ spc' = [spc EXCEPT ![k] = "del"]
    /\ UNCHANGED <<startVars, mon, regVars, elapsed, events, db, ssid, sproc, sret,
                   dataVars>>

\* lines 188-190: kill() and the wait() that reaps
StopKill(k) ==
    /\ spc[k] = "kill"
    /\ proc' = [proc EXCEPT ![sproc[k]] = Kill(@)]
    /\ spc' = [spc EXCEPT ![k] = "del"]
    /\ UNCHANGED <<startVars, mon, regVars, elapsed, events, db, ssid, sproc, sret, dataVars>>

\* line 192: del self.stream_processes[session_id]; KeyError leaves through `except`
StopDel(k) ==
    /\ spc[k] = "del"
    /\ IF stream_processes[ssid[k]] # NoProc
       THEN /\ stream_processes' = [stream_processes EXCEPT ![ssid[k]] = NoProc]
            /\ spc' = [spc EXCEPT ![k] = "mark"]
            /\ UNCHANGED sret
       ELSE /\ sret' = [sret EXCEPT ![k] = "exception"]
            /\ spc' = [spc EXCEPT ![k] = "done"]
            /\ UNCHANGED stream_processes
    /\ UNCHANGED <<startVars, proc, mon, active_streams, elapsed, events, db, ssid, sproc,
                   dataVars>>

\* lines 194-200
StopMark(k) ==
    /\ spc[k] = "mark"
    /\ active_streams' =
         IF active_streams[ssid[k]] # NoRec
         THEN [active_streams EXCEPT ![ssid[k]] = MarkStopped(@)]
         ELSE active_streams
    /\ sret' = [sret EXCEPT ![k] = "ok"]
    /\ spc' = [spc EXCEPT ![k] = "done"]
    /\ UNCHANGED <<startVars, proc, mon, stream_processes, elapsed, events, db, ssid, sproc,
                   dataVars>>

\* --------------------------------------- StreamingService.get_stream_status
\* lines 206-218: a copy of the whole record, 'stream_key' and 'rtmp_url' included
StatusKey(s) == rec_key[s]

AfterQueryEnded(rec) == IF rec.end_time = 0 THEN [rec EXCEPT !.end_time = 1] ELSE rec
\* lines 209-216: the record itself after the query, which works on `.copy()` and
\* reads end_time with status.get('end_time', datetime.now())
AfterQuery(rec) == rec

\* lines 206-218; None for a session_id without record
GetStreamStatus(s) ==
    /\ views' = [views EXCEPT ![s] = active_streams[s]]
    /\ active_streams' = [active_streams EXCEPT ![s] =
                             IF @ # NoRec THEN AfterQuery(@) ELSE @]
    /\ UNCHANGED <<startVars, proc, mon, stream_processes, elapsed, events, db, stopVars,
                   infoVars, keyVars, envVars, scalls, cleanVars, authVars>>

\* lines 220-225: get_stream_status for every key of active_streams
GetAllStreamStatus ==
    /\ views' = [s \in SessionIds |-> active_streams[s]]
    /\ active_streams' = [s \in SessionIds |->
                             IF active_streams[s] # NoRec THEN AfterQuery(active_streams[s])
                             ELSE active_streams[s]]
    /\ UNCHANGED <<startVars, proc, mon, stream_processes, elapsed, events, db, stopVars,
                   infoVars, keyVars, envVars, scalls, cleanVars, authVars>>

\* ----------------------------------------------- StreamingService.cleanup
\* the thread that calls cleanup(); its stop_stream calls are the steps of this caller
Cleaner == CHOOSE k \in Stoppers : TRUE

\* lines 227-229: list(self.active_streams.keys())
CleanupBegin ==
    /\ cpc = "idle"
    /\ spc[Cleaner] = "idle"
    /\ ckeys' = {s \in SessionIds : active_streams[s] # NoRec}
    /\ cpc' = "stop_all"
    /\ UNCHANGED <<startVars, proc, mon, regVars, elapsed, events, db, stopVars,
                   infoVars, keyVars, envVars, scalls, views,
                   authVars>>

\* lines 229-230: the next self.stop_stream(session_id) of the loop, whose result is
\* not looked at
CleanupStopNext ==
    /\ cpc = "stop_all"
    /\ spc[Cleaner] \in {"idle", "done"}
    /\ \E s \in ckeys :
         /\ ssid' = [ssid EXCEPT ![Cleaner] = s]
         /\ ckeys' = ckeys \ {s}
    /\ spc' = [spc EXCEPT ![Cleaner] = "check"]
    /\ UNCHANGED <<startVars, proc, mon, regVars, elapsed, events, db, sproc, sret,
                   infoVars, keyVars, envVars, scalls, views, cpc,
                   authVars>>

\* lines 250-252: self.active_streams.clear() once the loop is over
CleanupClearStreams ==
    /\ cpc = "stop_all"
    /\ ckeys = {}
    /\ spc[Cleaner] \in {"idle", "done"}
    /\ active_streams' = [s \in SessionIds |-> NoRec]
    /\ rec_key' = [s \in SessionIds |-> NoKey]
    /\ cpc' = "clear_processes"
    /\ UNCHANGED <<startVars, proc, mon, stream_processes, elapsed, events, db, stopVars,
                   infoVars, db_key, envVars, scalls, views, ckeys,
                   authVars>>

\* line 253: self.stream_processes.clear(), and the return
CleanupClearProcesses ==
    /\ cpc = "clear_processes"
    /\ stream_processes' = [s \in SessionIds |-> NoProc]
    /\ cpc' = "done"
    /\ UNCHANGED <<startVars, proc, mon, active_streams, elapsed, events, db, stopVars,
                   infoVars, keyVars, envVars, scalls, views, ckeys,
                   authVars>>

\* ------------------------------------------- direct callers of the service
\* StreamingService.start_stream(session_id, ...) called with any session_id
ApiStart(r, s) ==
    /\ pc[r] = "idle"
    /\ sid' = [sid EXCEPT ![r] = s]
    /\ stream_info' = [stream_info EXCEPT ![r] = StreamInfo(r)]
    /\ pc' = [pc EXCEPT ![r] = "svc_check"]
    /\ UNCHANGED <<calls, ui_result, svc_result, proc, mon, regVars, elapsed, events, db,
                   stopVars, broadcast_info, bind_args, shown, keyVars, envVars, scalls,
                   views, cleanVars, authVars>>

\* StreamingService.stop_stream(session_id) called with any session_id
ApiStop(k, s) ==
    /\ spc[k] = "idle"
    /\ spc' = [spc EXCEPT ![k] = "check"]
    /\ ssid' = [ssid EXCEPT ![k] = s]
    /\ UNCHANGED <<startVars, proc, mon, regVars, elapsed, events, db, sproc, sret, dataVars>>

\* ------------------------------------------------------- specifications
\* start_stream, the subprocess and its monitor thread
Supervise ==
    \/ \E r \in Requests : SvcCheck(r) \/ SvcPopen(r) \/ SvcStore(r) \/ SvcRegister(r)
    \/ \E r \in Requests : ProcExit(r) \/ MonitorTick(r) \/ MonitorSetActive(r)
    \/ \E s \in SessionIds : TimePasses(s)

Service ==
    \/ Supervise
    \/ \E k \in Stoppers : StopCheck(k) \/ StopTerminate(k) \/ StopWait(k) \/ StopKill(k)
                              \/ StopDel(k) \/ StopMark(k)

\* the start_stream steps of the page
UiStart ==
    \E r \in Requests : UiBegin(r) \/ UiCreateStream(r) \/ UiCreateBroadcast(r)
                            \/ UiBind(r) \/ UiSave(r) \/ UiResult(r)

\* the application: every start and stop comes from the Streamlit pages
Next ==
    \/ \E r \in Requests : UiBegin(r) \/ UiCreateStream(r) \/ UiCreateBroadcast(r)
                              \/ UiBind(r) \/ UiSave(r) \/ UiResult(r)
    \/ \E k \in Stoppers, s \in SessionIds : UiStop(k, s)
    \/ Service

Spec == Init /\ [][Next]_vars

\* the service object alone, its public methods called with any session_id
NextApi ==
    \/ \E r \in Requests, s \in SessionIds : ApiStart(r, s)
    \/ \E k \in Stoppers, s \in SessionIds : ApiStop(k, s)
    \/ Service

SpecApi == Init /\ [][NextApi]_vars

\* sessions started from the page and left to run, with the ingest endpoint and the
\* wall clock of the readiness window
NextIngest ==
    \/ UiStart
    \/ Supervise
    \/ \E r \in Requests : EncoderActive(r) \/ ReadinessTimeout(r) \/ EndOfInput(r)

SpecIngest == Init /\ [][NextIngest]_vars

\* the browser session of the dashboard page, whose stop buttons run one at a time
Viewer == CHOOSE k \in Stoppers : TRUE

\* the application with the dashboard asking for the status of the sessions and
\* stopping them
NextQuery ==
    \/ UiStart
    \/ Supervise
    \/ \E s \in SessionIds : UiStop(Viewer, s)
    \/ StopCheck(Viewer) \/ StopTerminate(Viewer) \/ StopWait(Viewer) \/ StopKill(Viewer)
    \/ StopDel(Viewer) \/ StopMark(Viewer)
    \/ \E s \in SessionIds : GetStreamStatus(s)
    \/ GetAllStreamStatus

SpecQuery == Init /\ [][NextQuery]_vars

\* sessions started from the page and left to run, with the subprocess writing to
\* its stderr pipe
NextPipe ==
    \/ UiStart
    \/ Supervise
    \/ \E r \in Requests : ProcWrite(r)

\* the monitor thread is scheduled, and the subprocess writes whenever it can
FairPipe ==
    /\ Init /\ [][NextPipe]_vars
    /\ \A r \in Requests :
         /\ WF_vars(MonitorTick(r))
         /\ WF_vars(MonitorSetActive(r))
         /\ WF_vars(ProcWrite(r))

\* the monitor threads and the starting thread are scheduled: a thread that can
\* take its next step eventually takes it
FairSpec ==
    /\ Spec
    /\ \A r \in Requests :
         /\ WF_vars(MonitorTick(r))
         /\ WF_vars(MonitorSetActive(r))
         /\ WF_vars(SvcStore(r))
         /\ WF_vars(SvcRegister(r))

\* -------------------------------------- AuthService and the channel manager
\* auth_service.py lines 168-170
IsAuthenticated == current_channel # NoCurrent /\ credentials # NoChannel

\* the ways complete_oauth_flow ends: no tokens (line 56), create_service failing
\* (line 60), get_channel_info failing (line 66), save_channel_auth failing (line 93)
OauthOutcomes == {"no_tokens", "no_service", "no_info", "not_saved", "ok"}

\* auth_service.py lines 46-98, for the authorization code of channel c;
\* youtube_service.create_service (lines 79-99) replaces the service at line 60
CompleteOauthFlow(c) ==
    \E outcome \in OauthOutcomes :
        /\ credentials' = IF outcome \in {"no_tokens", "no_service"} THEN credentials ELSE c
        /\ saved' = IF outcome = "ok" THEN saved \cup {c} ELSE saved
        /\ current_channel' = IF outcome = "ok" THEN [name |-> c, info |-> c]
                               ELSE current_channel
        /\ UNCHANGED <<startVars, proc, mon, regVars, elapsed, events, db, stopVars,
                       infoVars, keyVars, envVars, scalls, views, cleanVars>>

\* the ways load_saved_channel ends for a saved channel: create_service failing
\* (line 133), test_connection failing (line 130), get_channel_info failing (line 127)
LoadOutcomes == {"no_service", "expired", "no_info", "ok"}

\* auth_service.py lines 100-141; the page offers the saved channels (channel_manager.py
\* lines 139-158)
LoadSavedChannel(c) ==
    /\ c \in saved
    /\ \E outcome \in LoadOutcomes :
         /\ credentials' = IF outcome = "no_service" THEN credentials ELSE c
         /\ current_channel' = IF outcome = "ok" THEN [name |-> c, info |-> c]
                                ELSE current_channel
    /\ UNCHANGED <<startVars, proc, mon, regVars, elapsed, events, db, stopVars,
                   infoVars, keyVars, envVars, scalls, views, cleanVars, saved>>

\* channel_manager.py lines 197-227: create_service with the saved auth data of channel
\* c, then test_connection; current_channel is not touched
TestChannelAuth(c) ==
    /\ c \in saved
    /\ \E created \in BOOLEAN : credentials' = IF created THEN c ELSE credentials
    /\ UNCHANGED <<startVars, proc, mon, regVars, elapsed, events, db, stopVars,
                   infoVars, keyVars, envVars, scalls, views, cleanVars, current_channel,
                   saved>>

\* auth_service.py lines 172-186, behind the button of channel_manager.py lines 56-61:
\* get_channel_info answers for the channel of the credentials
RefreshChannelInfo ==
    /\ current_channel # NoCurrent
    /\ IsAuthenticated
    /\ \E answered \in BOOLEAN :
         current_channel' = IF answered THEN [current_channel EXCEPT !.info = credentials]
                            ELSE current_channel
    /\ UNCHANGED <<startVars, proc, mon, regVars, elapsed, events, db, stopVars,
                   infoVars, keyVars, envVars, scalls, views, cleanVars, credentials, saved>>

\* auth_service.py lines 154-166, behind the button of channel_manager.py lines 63-66
Logout ==
    /\ current_channel # NoCurrent
    /\ current_channel' = NoCurrent
    /\ credentials' = NoChannel
    /\ UNCHANGED <<startVars, proc, mon, regVars, elapsed, events, db, stopVars,
                   infoVars, keyVars, envVars, scalls, views, cleanVars, saved>>

Auth ==
    \/ \E c \in Channels : CompleteOauthFlow(c) \/ LoadSavedChannel(c) \/ TestChannelAuth(c)
    \/ RefreshChannelInfo
    \/ Logout

\* streaming_interface.py lines 16-19: the form is drawn for an authenticated user only
PageBegin(r) == IsAuthenticated /\ UiBegin(r)

\* youtube_service.py lines 161, 134 and 192: without a service the call returns None
\* (False for the bind)
PageCreateStream(r) ==
    UiCreateStream(r) /\ (credentials = NoChannel => pc'[r] = AfterCreateStream(FALSE))

PageCreateBroadcast(r) ==
    UiCreateBroadcast(r) /\ (credentials = NoChannel => pc'[r] = AfterCreateBroadcast(FALSE))

PageBind(r) ==
    UiBind(r) /\ (credentials = NoChannel => pc'[r] = AfterBind(FALSE))

\* streaming_interface.py lines 217-228 and 263-270: get_current_channel()['name']
\* raises TypeError after a logout, and the handler of the page ends the request
PageSave(r) ==
    IF current_channel # NoCurrent
    THEN UiSave(r)
    ELSE /\ pc[r] = "save"
         /\ pc' = [pc EXCEPT ![r] = "done"]
         /\ ui_result' = [ui_result EXCEPT ![r] = "exception"]
         /\ UNCHANGED <<sid, calls, svc_result, proc, mon, regVars, elapsed, events, db,
                        stopVars, dataVars>>

\* streaming_interface.py lines 16-19 and dashboard.py lines 16-19: both pages with a
\* Stop button return before they draw it when is_authenticated() is false; the
\* streaming page draws one for every record (lines 284-303)
StopAvailable(s) == IsAuthenticated /\ active_streams[s] # NoRec

PageStop(k, s) == StopAvailable(s) /\ UiStop(k, s)

\* the channel manager and the handshake of the streaming page, up to the saved row
NextAuth ==
    \/ Auth
    \/ \E r \in Requests : PageBegin(r) \/ PageCreateStream(r) \/ PageCreateBroadcast(r)
                              \/ PageBind(r) \/ PageSave(r)

SpecAuth == Init /\ [][NextAuth]_vars

\* the channel the user of the pages signs in with
Owner == CHOOSE c \in Channels : TRUE

\* the application behind its authentication gate: one browser session that signs in
\* and out, starts streams and stops them
NextPages ==
    \/ CompleteOauthFlow(Owner)
    \/ Logout
    \/ \E r \in Requests : PageBegin(r) \/ PageCreateStream(r) \/ PageCreateBroadcast(r)
                              \/ PageBind(r) \/ PageSave(r) \/ UiResult(r)
    \/ Supervise
    \/ \E s \in SessionIds : PageStop(Viewer, s)
    \/ StopCheck(Viewer) \/ StopTerminate(Viewer) \/ StopWait(Viewer) \/ StopKill(Viewer)
    \/ StopDel(Viewer) \/ StopMark(Viewer)

SpecPages == Init /\ [][NextPages]_vars

\* the pages starting sessions while some thread runs cleanup()
NextCleanup ==
    \/ UiStart
    \/ Supervise
    \/ CleanupBegin \/ CleanupStopNext \/ CleanupClearStreams \/ CleanupClearProcesses
    \/ StopCheck(Cleaner) \/ StopTerminate(Cleaner) \/ StopWait(Cleaner)
    \/ StopKill(Cleaner) \/ StopDel(Cleaner) \/ StopMark(Cleaner)

SpecCleanup == Init /\ [][NextCleanup]_vars

\* the monitor threads are scheduled while cleanup() runs
FairCleanup ==
    /\ SpecCleanup
    /\ \A r \in Requests :
         /\ WF_vars(MonitorTick(r))
         /\ WF_vars(MonitorSetActive(r))

\* sessions started from the page and left to run
NextLaunch ==
    \/ UiStart
    \/ Supervise

\* the threads are scheduled and the wall clock advances: ten seconds after
\* start_time are eventually over
FairLaunch ==
    /\ Init /\ [][NextLaunch]_vars
    /\ \A r \in Requests :
         /\ WF_vars(MonitorTick(r))
         /\ WF_vars(MonitorSetActive(r))
         /\ WF_vars(SvcStore(r))
         /\ WF_vars(SvcRegister(r))
    /\ \A s \in SessionIds : WF_vars(TimePasses(s))

\* ------------------------------------------------------------- vocabulary
HasCall(r, op, ok) == \E i \in 1..Len(calls[r]) : calls[r][i] = Call(op, ok)
Issued(r, op) == HasCall(r, op, TRUE) \/ HasCall(r, op, FALSE)
HandshakeFailed(r) == \E i \in 1..Len(calls[r]) : ~calls[r][i].ok
\* the request has reached Popen, or its subprocess exists
ReachedPopen(r) == pc[r] = "svc_popen" \/ proc[r] # "none"
Launched(r) == proc[r] # "none"
Subprocesses(s) == {r \in Requests : sid[r] = s /\ proc[r] \in Alive}
Running(s) == active_streams[s].status \in {"starting", "active"}
Rank(st) == CASE st = "absent" -> 0
              [] st = "starting" -> 1
              [] st = "active" -> 2
              [] st = "stopped" -> 3
Count(seq, e) == Cardinality({i \in 1..Len(seq) : seq[i] = e})
\* terminal events the callback has got for the session of request r
Terminal(r) == IF sid[r] = NoSid THEN 0 ELSE Count(events[sid[r]], "stopped")
LaunchFailures == {"file_missing", "no_info", "exception"}
\* transition-to-live calls issued for the broadcast of request r
LiveCalls(r) == Cardinality({i \in 1..Len(calls[r]) : calls[r][i].op = "transition_live"})
Live(r) == HasCall(r, "transition_live", TRUE)
\* the monitor has told the callback that the session is active
ReportedActive(r) == sid[r] # NoSid /\ Count(events[sid[r]], "active") >= 1
\* the monitor has seen the subprocess of request r end
Ended(r) == mon[r] = "done"
Failed(r) == sid[r] # NoSid /\ active_streams[sid[r]].status = "failed"
\* the ways start_stream fails, and the kind of failure each of them is
FailureReasons == LaunchFailures \cup {"already_active"}
KindOf(reason) == IF reason \in LaunchFailures THEN "launch" ELSE reason
HandshakeOrder == <<"create_stream", "create_broadcast", "bind">>
\* remote calls of kind op issued by request r
CallsOf(r, op) == Cardinality({i \in 1..Len(calls[r]) : calls[r][i].op = op})
\* the subprocess of request r is blocked in a write to its full stderr pipe
Blocked(r) == proc[r] = "running" /\ pipe[r] = PipeCap
\* transition-to-complete calls issued by stop request k
CompleteCalls(k) ==
    Cardinality({i \in 1..Len(scalls[k]) : scalls[k][i].op = "transition_complete"})

\* ------------------------------------------------------------------ claims

\* C1: a request reaches Popen, and its subprocess exists, only after its bind call
\* has succeeded; a request one of whose handshake calls failed never has a subprocess.
C1_LaunchOnlyAfterBind ==
    \A r \in Requests :
        /\ ReachedPopen(r) => HasCall(r, "bind", TRUE)
        /\ HandshakeFailed(r) => ~ReachedPopen(r)

C1_Witness ==
    \E r1, r2 \in Requests :
        /\ proc[r1] = "running" /\ HasCall(r1, "bind", TRUE)
        /\ HasCall(r2, "bind", FALSE) /\ pc[r2] = "done" /\ proc[r2] = "none"

\* C2: at any time at most one transcoder subprocess exists for a session_id, also
\* when two start_stream calls with the same session_id overlap.
C2_OneSubprocessPerSession ==
    \A s \in SessionIds : Cardinality(Subprocesses(s)) <= 1

\* C3: a start_stream call that arrives while the session's status is starting or
\* active returns the already-active failure, launches nothing, and leaves the
\* record, the process handle, the subprocesses and the monitors as they are.
C3_RunningSessionRejectsStart ==
    [][\A r \in Requests :
         (pc[r] = "svc_check" /\ Running(sid[r]) /\ pc'[r] # "svc_check")
            => /\ svc_result'[r] = "already_active"
               /\ pc'[r] = "returned"
               /\ proc'[r] = "none"
               /\ UNCHANGED <<active_streams, stream_processes, proc, mon>>]_vars

C3_Witness ==
    \E r1, r2 \in Requests :
        /\ r1 # r2 /\ sid[r1] = sid[r2]
        /\ svc_result[r2] = "already_active" /\ proc[r2] = "none" /\ mon[r2] = "none"
        /\ Running(sid[r1]) /\ proc[r1] = "running" /\ stream_processes[sid[r1]] = r1

\* C4: the status of a session only moves forward, starting, then active, then
\* stopped; no step moves it backward.
C4_StatusOnlyForward ==
    [][\A s \in SessionIds :
         Rank(active_streams'[s].status) >= Rank(active_streams[s].status)]_vars

\* C5: stopped is terminal: once the status of a session is stopped no step makes it
\* anything else, and no step launches a subprocess for that session_id.
C5_StoppedIsTerminal ==
    [][\A s \in SessionIds :
         active_streams[s].status = "stopped"
            => /\ active_streams'[s].status = "stopped"
               /\ \A r \in Requests :
                    (sid'[r] = s /\ proc'[r] = "running") => proc[r] = "running"]_vars

\* C6: a stop_stream call that found the process handle kills only a subprocess that
\* was sent SIGTERM and has outlived the wait, and the call ends with the handle
\* removed from stream_processes and the status stopped.
C6_StopReleasesAndMarksStopped ==
    [][/\ \A r \in Requests :
            (proc'[r] = "killed" /\ proc[r] # "killed")
               => /\ proc[r] = "sigterm"
                  /\ \E k \in Stoppers : spc[k] = "kill" /\ sproc[k] = r
       /\ \A k \in Stoppers :
            (spc[k] = "wait" /\ spc'[k] = "kill") => proc[sproc[k]] \in Alive
       /\ \A k \in Stoppers :
            (sproc[k] # NoProc /\ spc[k] # "done" /\ spc'[k] = "done")
               => /\ stream_processes'[ssid[k]] = NoProc
                  /\ active_streams'[ssid[k]].status = "stopped"]_vars

\* C7: a stop_stream call for a session without process handle, be it an unknown
\* session_id or a session that is already stopped, changes no session record and
\* returns the not-active failure.
C7_StopWithoutHandleIsNoOp ==
    [][\A k \in Stoppers :
         /\ (/\ spc[k] = "check" /\ spc'[k] # "check"
             /\ active_streams[ssid[k]] = NoRec /\ stream_processes[ssid[k]] = NoProc)
               => /\ active_streams' = active_streams
                  /\ spc'[k] = "done" /\ sret'[k] = "not_active"
         /\ (/\ spc[k] = "mark" /\ spc'[k] = "done"
             /\ sproc[k] = NoProc /\ stream_processes[ssid[k]] = NoProc
             /\ active_streams[ssid[k]].status = "stopped")
               => /\ active_streams' = active_streams
                  /\ sret'[k] = "not_active"]_vars

\* C8: the callback gets the stopped event of a session at most once, and once the
\* subprocess of a session has exited it eventually has got it exactly once.
C8_ExactlyOneTerminalEvent ==
    /\ [](\A s \in SessionIds : Count(events[s], "stopped") <= 1)
    /\ \A r \in Requests :
         (proc[r] \in Exited) ~> (Terminal(r) = 1)

C8_Witness ==
    \E r1, r2 \in Requests :
        /\ proc[r1] = "killed" /\ Terminal(r1) = 1
        /\ proc[r2] = "exited" /\ Terminal(r2) = 1
        /\ \E k \in Stoppers : sproc[k] = r2 /\ sret[k] = "ok"

\* C9: after a launch failure (file missing, video information unreadable, Popen
\* raising) start_stream returns failure, the session_id has no record, no process
\* handle, no monitor and no subprocess, and the page reports the failed start.
C9_LaunchFailureRegistersNothing ==
    \A r \in Requests :
        svc_result[r] \in LaunchFailures
           => /\ ~Success(r)
              /\ active_streams[sid[r]] = NoRec
              /\ stream_processes[sid[r]] = NoProc
              /\ mon[r] = "none"
              /\ proc[r] = "none"
              /\ pc[r] \in {"returned", "done"}
              /\ pc[r] = "done" => ui_result[r] = "ffmpeg_failed"

C9_Witness ==
    \E r1, r2 \in Requests :
        /\ svc_result[r1] = "exception" /\ pc[r1] = "done"
        /\ svc_result[r2] = "file_missing" /\ pc[r2] = "done"
        /\ \A s \in SessionIds : active_streams[s] = NoRec

\* C10: when the create-broadcast call fails the request ends there with the
\* broadcast failure, issues no bind call and never has a subprocess.
C10_BroadcastFailureStops ==
    \A r \in Requests :
        HasCall(r, "create_broadcast", FALSE)
           => /\ pc[r] = "done"
              /\ ui_result[r] = "broadcast_failed"
              /\ ~Issued(r, "bind")
              /\ ~ReachedPopen(r)
              /\ db[sid[r]] = "none"

C10_Witness ==
    \E r \in Requests :
        /\ HasCall(r, "create_stream", TRUE)
        /\ HasCall(r, "create_broadcast", FALSE)
        /\ pc[r] = "done" /\ proc[r] = "none"

\* C11: when the bind call fails the request ends there with the bind failure and
\* stays ended: the bind call has been issued once and is not issued again, and the
\* session never has a subprocess, a record or a process handle.
C11_BindFailureStops ==
    \A r \in Requests :
        HasCall(r, "bind", FALSE)
           => /\ pc[r] = "done"
              /\ ui_result[r] = "bind_failed"
              /\ Cardinality({i \in 1..Len(calls[r]) : calls[r][i].op = "bind"}) = 1
              /\ ~ReachedPopen(r)
              /\ active_streams[sid[r]] = NoRec
              /\ stream_processes[sid[r]] = NoProc

C11_Witness ==
    \E r \in Requests :
        /\ HasCall(r, "create_stream", TRUE)
        /\ HasCall(r, "create_broadcast", TRUE)
        /\ HasCall(r, "bind", FALSE)
        /\ pc[r] = "done" /\ proc[r] = "none"

\* C12: a session whose ingest endpoint reported the encoder active from the first
\* readiness checks on, and whose subprocess kept running, has got exactly one
\* transition-to-live call and has become live; stated for the session at its end.
C12_TransitionToLiveOnce ==
    \A r \in Requests :
        (encoder[r] = "early" /\ ReportedActive(r) /\ Ended(r))
           => LiveCalls(r) = 1 /\ Live(r)

\* C13: a session whose ingest endpoint did not report the encoder active within the
\* 90 seconds of the readiness timeout, its subprocess still running then, has failed
\* with the timeout and has got no transition-to-live call, also when the endpoint
\* turned active later; stated for the session at its end.
C13_ReadinessTimeoutFails ==
    \A r \in Requests :
        (late[r] /\ encoder[r] \in {"inactive", "late"} /\ Ended(r))
           => Failed(r) /\ LiveCalls(r) = 0

\* C15: a stop request that found the subprocess and has ended with success has issued
\* a transition-to-complete call for the broadcast of its session; and when that call
\* has failed the request still ends with success, the subprocess it found terminated.
C15_StopCompletesBroadcast ==
    \A k \in Stoppers :
        /\ (spc[k] = "done" /\ sret[k] = "ok" /\ sproc[k] # NoProc) => CompleteCalls(k) >= 1
        /\ (spc[k] = "done" /\ Call("transition_complete", FALSE) \in
                                  {scalls[k][i] : i \in 1..Len(scalls[k])})
              => /\ sret[k] = "ok"
                 /\ sproc[k] # NoProc => proc[sproc[k]] \in Exited

\* C16: the monitor drains the stderr pipe of a running subprocess: unread lines are
\* eventually read, so a subprocess blocked in a write to the full pipe eventually
\* is no longer blocked.
C16_OutputDrained ==
    \A r \in Requests :
        /\ (proc[r] = "running" /\ pipe[r] > 0) ~> (pipe[r] = 0 \/ proc[r] # "running")
        /\ Blocked(r) ~> ~Blocked(r)

\* C17: what the session store holds, what the page displays and what the status
\* record of a session carries of its ingest key is nothing or the redacted key, never
\* the key in full (so the data differ between two keys by the redacted form only).
C17_KeyOnlyRedacted ==
    \A r \in Requests :
        (sid[r] # NoSid /\ stream_info[r] # NoInfo)
           => /\ db_key[sid[r]] \in {NoKey, Redact(stream_info[r].stream_key)}
              /\ shown[r] \in {NoKey, Redact(stream_info[r].stream_key)}
              /\ StatusKey(sid[r]) \in {NoKey, Redact(stream_info[r].stream_key)}

\* C18: the value a failed start_stream call returns tells the kind of the failure:
\* no failure of another kind (launch failure, already-active rejection) returns the
\* same value.
C18_FailuresDistinguishable ==
    \A r \in Requests :
        (pc[r] = "returned" /\ svc_result[r] \in FailureReasons)
           => \A f \in FailureReasons :
                 Returned(f) = Returned(svc_result[r]) => KindOf(f) = KindOf(svc_result[r])

\* C19: a step of stop_stream(s) leaves the record (status and end_time included), the
\* process handle, the subprocesses and the monitors of every other session unchanged.
C19_StopLeavesOthers ==
    [][\A k \in Stoppers :
         (spc[k] # "idle" /\ spc'[k] # spc[k])
            => \A t \in SessionIds \ {ssid[k]} :
                  /\ active_streams'[t] = active_streams[t]
                  /\ stream_processes'[t] = stream_processes[t]
                  /\ \A r \in Requests :
                       sid[r] = t => proc'[r] = proc[r] /\ mon'[r] = mon[r]]_vars

C19_Witness ==
    \E k \in Stoppers, t \in SessionIds :
        /\ sret[k] = "ok" /\ sproc[k] # NoProc /\ proc[sproc[k]] = "killed"
        /\ t # ssid[k]
        /\ active_streams[ssid[k]].status = "stopped"
        /\ active_streams[t].status = "active"
        /\ stream_processes[t] # NoProc /\ proc[stream_processes[t]] = "running"

\* C20: the handshake calls of a request are issued in the order create stream, create
\* broadcast, bind, each after the one before it has succeeded, and the bind call
\* carries the broadcast id and the stream id those two calls returned.
C20_HandshakeInOrder ==
    \A r \in Requests :
        /\ Len(calls[r]) <= Len(HandshakeOrder)
        /\ \A i \in 1..Len(calls[r]) :
             /\ calls[r][i].op = HandshakeOrder[i]
             /\ i < Len(calls[r]) => calls[r][i].ok
        /\ Issued(r, "bind")
              => /\ broadcast_info[r] # NoId /\ stream_info[r] # NoInfo
                 /\ bind_args[r].broadcast_id = broadcast_info[r]
                 /\ bind_args[r].stream_id = stream_info[r].stream_id
        /\ ~Issued(r, "bind") => bind_args[r] = NoArgs

C20_Witness ==
    \E r1, r2 \in Requests :
        /\ HasCall(r1, "bind", TRUE) /\ Len(calls[r1]) = 3
        /\ bind_args[r1] = [broadcast_id |-> BroadcastId(r1), stream_id |-> StreamId(r1)]
        /\ HasCall(r2, "create_stream", FALSE) /\ Len(calls[r2]) = 1 /\ pc[r2] = "done"

\* C21: a start request issues each remote write call (create stream, create
\* broadcast, bind) at most once, whether the call succeeded or failed.
C21_NoWriteCallRetried ==
    \A r \in Requests :
        \A i \in 1..Len(HandshakeOrder) : CallsOf(r, HandshakeOrder[i]) <= 1

C21_Witness ==
    \E r1, r2 \in Requests :
        /\ pc[r1] = "done" /\ HasCall(r1, "create_stream", FALSE)
        /\ pc[r2] = "done" /\ HasCall(r2, "bind", TRUE)
        /\ CallsOf(r1, "create_stream") = 1 /\ CallsOf(r2, "bind") = 1

\* C22: once the monitor has seen the subprocess of a session end, the session has no
\* entry in stream_processes any more, also when no stop_stream call was made for it.
C22_ExitReleasesHandle ==
    \A r \in Requests :
        Ended(r) => stream_processes[sid[r]] = NoProc

\* C23: the destination of the command of a launched subprocess is the stream url, a
\* slash and the stream key that create_live_stream returned to the same request, and
\* a request whose start_stream call succeeded has its session registered.
C23_DestinationIsUrlSlashKey ==
    \A r \in Requests :
        /\ Launched(r)
              => /\ stream_info[r] = StreamInfo(r)
                 /\ cmd[r].dest = StreamUrl(r) \o <<Slash>> \o StreamKey(r)
                 /\ Len(cmd[r].dest) = UrlLen + 1 + KeyLen
        /\ ~Launched(r) => cmd[r] = NoCmd
        /\ Success(r) => active_streams[sid[r]] # NoRec

C23_Witness ==
    \E r \in Requests :
        /\ Success(r) /\ proc[r] = "running"
        /\ active_streams[sid[r]].status = "starting"
        /\ cmd[r].dest = StreamUrl(r) \o <<Slash>> \o StreamKey(r)

\* C24: start_stream returns success right after the launch: the return waits for no
\* later state of the session, and at the return the session is registered with status
\* starting, its process handle is registered and its monitor is running.
C24_ReturnsAtLaunch ==
    /\ [](\A r \in Requests : pc[r] = "svc_register" => ENABLED SvcRegister(r))
    /\ [][\A r \in Requests :
            (pc[r] = "svc_register" /\ pc'[r] = "returned")
               => /\ Success(r)'
                  /\ active_streams'[sid[r]].status = "starting"
                  /\ stream_processes'[sid[r]] = r
                  /\ mon'[r] = "poll"]_vars

\* C25: whenever the status of a session is stopped, whoever wrote it, no subprocess
\* of that session is running.
C25_StoppedMeansTerminated ==
    \A r \in Requests :
        (sid[r] # NoSid /\ active_streams[sid[r]].status = "stopped")
           => proc[r] \notin Alive

\* C26: a step of get_stream_status or get_all_stream_status changes nothing but the
\* answer it returns: no record (status, end_time), no process handle, no subprocess
\* and no monitor.
C26_QueriesReadOnly ==
    [][views' # views
          => UNCHANGED <<active_streams, stream_processes, proc, mon, elapsed, events,
                         startVars, stopVars>>]_vars

C26_Witness ==
    \E s, t \in SessionIds :
        /\ views[s].status = "active" /\ active_streams[s].status = "stopped"
        /\ views[t].status = "stopped" /\ active_streams[t] = views[t]

\* C27: a session whose subprocess was launched and whose record was stored is
\* eventually reported active (status 'active' written and the active event
\* delivered), unless its subprocess has ended before.
C27_EventuallyActive ==
    \A r \in Requests :
        (proc[r] \in Alive /\ pc[r] \in {"svc_register", "returned"})
            ~> (ReportedActive(r) \/ proc[r] \notin Alive)

C27_Witness ==
    \E r \in Requests :
        /\ Success(r) /\ proc[r] \in Alive
        /\ active_streams[sid[r]].status = "active"
        /\ events[sid[r]] = <<"active">>

\* C28: the command loops its input, so no subprocess comes to the end of its source
\* file: a session is never found stopped because its transcoder read the source to
\* the end (it leaves the running states through a stop request or an error only).
C28_InputLoops ==
    \A r \in Requests :
        (sid[r] # NoSid /\ active_streams[sid[r]].status = "stopped")
            => ~eof[r]

\* C29: once the end_time of a session has been written, no step changes it.
C29_EndTimeWrittenOnce ==
    [][\A s \in SessionIds :
          (active_streams[s] # NoRec /\ active_streams[s].end_time # 0)
             => (active_streams'[s] # NoRec
                 /\ active_streams'[s].end_time = active_streams[s].end_time)]_vars

\* C30: in every reachable state a session_id with a registered process handle has a
\* session record, and a session whose status is starting or active has a registered
\* process handle.
C30_RegistryConsistent ==
    \A s \in SessionIds :
        /\ stream_processes[s] # NoProc => active_streams[s] # NoRec
        /\ Running(s) => stream_processes[s] # NoProc

\* C31: when cleanup returns no subprocess is running, and the handles it drops are
\* handles of terminated subprocesses.
C31_CleanupLeavesNoSubprocess ==
    [][(cpc = "clear_processes" /\ cpc' = "done")
          => /\ \A r \in Requests : proc'[r] \notin Alive
             /\ \A s \in SessionIds :
                   stream_processes[s] # NoProc => proc[stream_processes[s]] \notin Alive]_vars

\* C32: a session whose launch has failed after its row was saved, or that a finished
\* stop or the monitor has marked stopped in the registry, is not among the sessions
\* get_streaming_sessions(active_only=True) returns.
C32_PersistedFollowsLive ==
    \A r \in Requests :
        (sid[r] # NoSid /\ pc[r] = "done"
           /\ (svc_result[r] \in LaunchFailures
               \/ (active_streams[sid[r]].status = "stopped" /\ Ended(r))))
            => sid[r] \notin GetStreamingSessions(TRUE)

\* C33: whenever is_authenticated() is true, the service of youtube_service was built
\* with the credentials of the channel named by current_channel.
C33_CredentialsOfCurrentChannel ==
    IsAuthenticated => credentials = current_channel.name

\* C36: whenever a session has a registered, running subprocess, one of the pages
\* offers a Stop button for it.
C36_RunningStreamCanBeStopped ==
    \A r \in Requests :
        (proc[r] \in Alive /\ sid[r] # NoSid /\ stream_processes[sid[r]] = r)
            => StopAvailable(sid[r])

\* C34: the callback gets the active event of a session at most once, and never
\* after the stopped event of that session.
C34_ActiveOnceBeforeStopped ==
    \A s \in SessionIds :
        /\ Count(events[s], "active") <= 1
        /\ \A i, j \in 1..Len(events[s]) :
              (events[s][i] = "stopped" /\ events[s][j] = "active") => j < i

C34_Witness ==
    \E r \in Requests, k \in Stoppers :
        /\ sid[r] # NoSid /\ events[sid[r]] = <<"active", "stopped">>
        /\ sproc[k] = r /\ sret[k] = "ok" /\ proc[r] = "killed"

\* the monitor thread of request r is in its loop
Monitoring(r) == mon[r] \in {"poll", "set_active"}

====
